---- MODULE Spec2Model ----
(***************************************************************************)
(* ShoeKart storefront: the cart-to-order transition of pages/Cart.tsx    *)
(* against the backing store (tables, constraints and row-level security  *)
(* policies of the SQL migration) with the admin product handlers of      *)
(* pages/Admin.tsx and the catalog add of pages/Products.tsx (Spec), the  *)
(* cart operations of the Cart page (CartSpec) and the filters of the     *)
(* Products page (FilterSpec).                                             *)
(*                                                                         *)
(* Money is kept in integer minor units (DECIMAL(10,2) columns).  Every    *)
(* `await` of a handler is one atomic step of the model; a remote call     *)
(* either succeeds or returns an error (RemoteFailure).  The useCart hook  *)
(* is not part of the sources at hand: its operations follow section 4.1   *)
(* of the specification, and each of them reloads the caller's lines.      *)
(* The catalog and admin pages act on the rows the store holds at the      *)
(* click.                                                                  *)
(***************************************************************************)
EXTENDS Integers, Sequences, FiniteSets, TLC

(* ------------------------------ bounds -------------------------------- *)
\* handler invocations explored in one behaviour
MaxOps == 4
\* remote calls that may return an error in one behaviour
MaxFailures == 1
\* the restocking value an admin types into the product form
MaxStock == 2
\* product form submits and status toggles explored in one behaviour
MaxEdits == 1

(* ----------------------------- identities ----------------------------- *)
NoUser == "anon"
Users == {"ann", "root"}
Callers == Users \cup {NoUser}
\* rows of public.user_roles: handle_new_user gives everybody 'user'
UserRoles == {<<"ann", "user">>, <<"root", "user">>, <<"root", "admin">>}

Items == {"p1", "p2"}
\* products.size_available
SizeAvailable == [p1 |-> {"8", "9"}, p2 |-> {"8"}]
\* (product, size) pairs in the order the cart query returns them
Keys == << <<"p1", "8">>, <<"p1", "9">>, <<"p2", "8">> >>
\* the values an admin types into the product form
PriceInputs == {3}
StockInputs == {-1, 0, MaxStock}

VARIABLES
  products,     \* public.products: id -> [price, stock_quantity, is_active]
  cart,         \* public.cart: set of rows
  orders,       \* public.orders: sequence of rows, id = position
  order_items,  \* public.order_items: sequence of rows
  cartItems,    \* useCart().cartItems of each caller's page
  placing,      \* useState(false) of the Cart page
  pc,           \* where handlePlaceOrder of each caller stands
  co,           \* the closure of the running handlePlaceOrder
  toast,        \* the last notification shown to each caller
  writers,      \* history: the callers whose request changed a products row
  nedits,       \* product form submits and status toggles so far
  nops,         \* handler invocations so far
  nfail,        \* remote errors so far
  last,         \* history: the cart operation invoked last (cart contract)
  page,         \* the Products page: products, loading and the three filters
  adminPage,    \* the session's user and role lookup, and the Admin page
  deleted       \* the products rows deleted so far

vars == <<products, cart, orders, order_items, cartItems, placing, pc, co,
          toast, writers, nedits, nops, nfail, last, page, adminPage, deleted>>

\* the columns of the tables (products, cart, orders, order_items) and the
\* state of each caller's Cart page
TypeOK ==
  /\ \A p \in Items :
       /\ products[p].price \in Nat
       /\ products[p].stock_quantity \in Int
       /\ products[p].is_active \in BOOLEAN
  /\ \A r \in cart :
       /\ r.user_id \in Users /\ r.product_id \in Items
       /\ r.selected_size \in SizeAvailable[r.product_id]
       /\ r.quantity \in Int
  /\ \A o \in 1 .. Len(orders) :
       /\ orders[o].id = o /\ orders[o].user_id \in Users
       /\ orders[o].total_amount \in Int /\ orders[o].status = "pending"
  /\ \A i \in 1 .. Len(order_items) :
       /\ order_items[i].order_id \in 1 .. Len(orders)
       /\ order_items[i].product_id \in Items
  /\ placing \in [Callers -> BOOLEAN]
  /\ \A u \in Callers :
       /\ pc[u] \in {"Idle", "Rejected", "InsertOrder", "InsertOrderItems",
                     "UpdateStock", "ClearCart", "Committed", "Failed"}
       /\ toast[u] \in {"none", "success", "error"}
       /\ placing[u] = (pc[u] \in {"InsertOrder", "InsertOrderItems",
                                    "UpdateStock", "ClearCart"})

(* ------------------------- row-level security ------------------------- *)
\* public.has_role(_user_id, _role)
has_role(u, r) == <<u, r>> \in UserRoles

\* faulty variant: any signed-in caller may manage products
ProductsManagePolicyBroken(caller) == caller # NoUser
\* "Admins can manage products" FOR ALL USING has_role(auth.uid(),'admin')
ProductsManagePolicy(caller) == has_role(caller, "admin")

\* "Anyone can view active products" OR-ed with the admin policy
ProductsSelectPolicy(caller, row) ==
  row.is_active \/ ProductsManagePolicy(caller)

\* "Users can create own orders" FOR INSERT WITH CHECK auth.uid() = user_id
OrdersInsertPolicy(caller, row) == caller # NoUser /\ row.user_id = caller

\* "Users can create order items for own orders": the order is the caller's
OrderItemsInsertPolicy(caller, row, os) ==
  \E o \in 1 .. Len(os) : os[o].id = row.order_id /\ os[o].user_id = caller

\* faulty variant: any signed-in caller may manage every cart row
CartPolicyAnyOwner(caller, row) == caller # NoUser
\* "Users can manage own cart" FOR ALL USING auth.uid() = user_id
CartPolicy(caller, row) == caller # NoUser /\ row.user_id = caller

\* supabase.from('products').update(patch).eq('id', pid) issued by caller:
\* rows the policy hides are silently not updated (no error)
ProductsUpdate(caller, pid, patch) ==
  IF ProductsManagePolicy(caller)
  THEN [products EXCEPT ![pid] = patch @@ products[pid]]
  ELSE products

(* ------------------------------ helpers ------------------------------- *)
RECURSIVE SumSeq(_, _)
\* Array.prototype.reduce((sum, x) => sum + f(x), 0) with f = price*quantity
SumSeq(s, i) ==
  IF i > Len(s) THEN 0 ELSE s[i].price * s[i].quantity + SumSeq(s, i + 1)

\* faulty variant: the quantity is left out of the sum
totalOfPrices(items) ==
  SumSeq([k \in 1 .. Len(items) |->
            [price |-> items[k].product.price, quantity |-> 1]], 1)
\* const total = cartItems.reduce((sum, item) => sum + price * quantity, 0)
total(items) ==
  SumSeq([k \in 1 .. Len(items) |->
            [price |-> items[k].product.price, quantity |-> items[k].quantity]], 1)

RECURSIVE SelectKeys(_, _, _, _)
\* useCart fetch: the cart rows of caller u in table c joined with their
\* product (as far as the caller may see it) in table ps, in query order
SelectKeys(u, c, ps, k) ==
  IF k > Len(Keys) THEN << >>
  ELSE LET pid == Keys[k][1]
           sz == Keys[k][2]
           rows == {r \in c : CartPolicy(u, r) /\ r.product_id = pid
                               /\ r.selected_size = sz}
           seen == ProductsSelectPolicy(u, ps[pid])
           here == IF rows = {} \/ ~seen THEN << >>
                   ELSE LET r == CHOOSE r \in rows : TRUE
                        IN << [product_id |-> pid, selected_size |-> sz,
                               quantity |-> r.quantity,
                               product |-> [price |-> ps[pid].price,
                                            stock_quantity |->
                                              ps[pid].stock_quantity]] >>
       IN here \o SelectKeys(u, c, ps, k + 1)

\* useCart().fetchCart
fetchCart(u, c, ps) == SelectKeys(u, c, ps, 1)

\* faulty variant: an add of a triple already in the cart changes nothing
addToCartNoIncrement(u, pid, sz) ==
  cart \cup {[user_id |-> u, product_id |-> pid, selected_size |-> sz,
              quantity |-> 1]}
\* useCart().addToCart: one row per (user, product, size); a second add
\* of the same triple increments its quantity
addToCart(u, pid, sz) ==
  LET rows == {r \in cart : r.user_id = u /\ r.product_id = pid
                             /\ r.selected_size = sz}
  IN IF rows = {}
     THEN cart \cup {[user_id |-> u, product_id |-> pid,
                      selected_size |-> sz, quantity |-> 1]}
     ELSE {IF r \in rows THEN [r EXCEPT !.quantity = @ + 1] ELSE r : r \in cart}

\* useCart().updateQuantity: set the quantity of the caller's row
updateQuantity(u, pid, sz, n) ==
  {IF CartPolicy(u, r) /\ r.product_id = pid /\ r.selected_size = sz
   THEN [r EXCEPT !.quantity = n] ELSE r : r \in cart}

\* useCart().removeFromCart: delete the caller's row of one line
removeFromCart(u, pid, sz) ==
  {r \in cart : ~(CartPolicy(u, r) /\ r.product_id = pid
                    /\ r.selected_size = sz)}

\* useCart().clearCart: delete every cart row of the caller
clearCart(u) == {r \in cart : ~CartPolicy(u, r)}

Submitting == {"InsertOrder", "InsertOrderItems", "UpdateStock", "ClearCart"}

NoCheckout ==
  [items |-> << >>, total |-> 0, order |-> 0, k |-> 0, errs |-> 0,
   stock0 |-> [p \in Items |-> 0], price0 |-> [p \in Items |-> 0]]

\* strings of the Products page are sequences of characters
All == <<"a", "l", "l">>
\* useState([]), useState(true), useState(''), useState('all') twice
NewPage ==
  [products |-> << >>, loading |-> TRUE, searchTerm |-> << >>,
   selectedBrand |-> All, priceRange |-> "all"]

\* nobody is signed in and the browser is on the home page; loading is
\* useState(true) of the Admin page, fetches, effects and denied are history
NoAdminPage ==
  [user |-> NoUser, roleLoading |-> FALSE, isAdmin |-> FALSE, route |-> "/",
   loading |-> TRUE, fetches |-> 0, effects |-> 0, denied |-> FALSE]

\* no cart operation was invoked yet
NoOp ==
  [op |-> "none", user |-> NoUser, product_id |-> "p1", selected_size |-> "8",
   n |-> 1]

Init ==
  /\ products = [p \in Items |->
                   [price |-> IF p = "p1" THEN 2 ELSE 3,
                    stock_quantity |-> IF p = "p1" THEN 2 ELSE 1,
                    is_active |-> TRUE]]
  /\ cart = {}
  /\ orders = << >>
  /\ order_items = << >>
  /\ cartItems = [u \in Callers |-> fetchCart(u, cart, products)]
  /\ placing = [u \in Callers |-> FALSE]
  /\ pc = [u \in Callers |-> "Idle"]
  /\ co = [u \in Callers |-> NoCheckout]
  /\ toast = [u \in Callers |-> "none"]
  /\ writers = {}
  /\ nedits = 0
  /\ nops = 0
  /\ nfail = 0
  /\ last = NoOp
  /\ page = NewPage
  /\ adminPage = NoAdminPage
  /\ deleted = {}

\* the store and the Cart pages, without the handler count
StoreVarsOfAdmin ==
  <<products, cart, orders, order_items, cartItems, placing, pc, co, toast,
    writers, nedits, nfail>>

\* bookkeeping of one handler invocation by caller u
Invoke(u) ==
  /\ nops < MaxOps
  /\ nops' = nops + 1

(* --------------------------- pages/Cart.tsx --------------------------- *)
\* faulty variant: the empty cart is not checked
PlaceOrderGuardAnyCart(u) == u # NoUser
\* the guard of handlePlaceOrder: if (!user || cartItems.length === 0) return
PlaceOrderGuard(u) == u # NoUser /\ Len(cartItems[u]) > 0

\* handlePlaceOrder called while its guard fails: it returns at once
PlaceOrderRejected(u) ==
  /\ ~PlaceOrderGuard(u)
  /\ pc[u] \notin Submitting
  /\ Invoke(u)
  /\ pc' = [pc EXCEPT ![u] = "Rejected"]
  /\ UNCHANGED <<products, cart, orders, order_items, cartItems, placing, co,
                 toast, writers, nedits, nfail>>

\* faulty variant: the Place Order button stays enabled while placing
PlaceOrderButtonAlwaysEnabled(u) == TRUE
\* the Place Order button: disabled={placing || cartItems.length === 0};
\* the empty cart is left to the guard of the handler
PlaceOrderButtonEnabled(u) == ~placing[u]

\* handlePlaceOrder up to its first await: setPlacing(true); the closure
\* holds the cartItems and the total of the render that created it
PlaceOrder(u) ==
  /\ PlaceOrderGuard(u)
  /\ PlaceOrderButtonEnabled(u)
  /\ Invoke(u)
  /\ placing' = [placing EXCEPT ![u] = TRUE]
  /\ pc' = [pc EXCEPT ![u] = "InsertOrder"]
  /\ co' = [co EXCEPT ![u] =
              [items |-> cartItems[u], total |-> total(cartItems[u]),
               order |-> 0, k |-> 1, errs |-> 0,
               stock0 |-> [p \in Items |-> products[p].stock_quantity],
               price0 |-> [p \in Items |-> products[p].price]]]
  /\ UNCHANGED <<products, cart, orders, order_items, cartItems, toast,
                 writers, nedits, nfail>>

\* faulty variant: the catch block deletes the order the checkout inserted
ordersAfterCatchRolledBack(u) ==
  SelectSeq(orders, LAMBDA o : o.id # co[u].order)
\* the orders table after the catch block: the block issues no request
ordersAfterCatch(u) == orders

\* faulty variant: the error of a step is swallowed and the handler goes on
\* to the cart clear
CatchAndGoOn(u) ==
  /\ nfail < MaxFailures
  /\ nfail' = nfail + 1
  /\ orders' = orders
  /\ UNCHANGED <<toast, placing>>
  /\ pc' = [pc EXCEPT ![u] = "ClearCart"]
\* faulty variant: there is no finally block, placing stays true
CatchStillPlacing(u) ==
  /\ nfail < MaxFailures
  /\ nfail' = nfail + 1
  /\ orders' = orders
  /\ toast' = [toast EXCEPT ![u] = "error"]
  /\ UNCHANGED placing
  /\ pc' = [pc EXCEPT ![u] = "Failed"]
\* catch (error) { toast.error(...) } finally { setPlacing(false) }
Catch(u) ==
  /\ nfail < MaxFailures
  /\ nfail' = nfail + 1
  /\ orders' = ordersAfterCatch(u)
  /\ toast' = [toast EXCEPT ![u] = "error"]
  /\ placing' = [placing EXCEPT ![u] = FALSE]
  /\ pc' = [pc EXCEPT ![u] = "Failed"]

\* the row inserted into orders
OrderRow(u) ==
  [id |-> Len(orders) + 1, user_id |-> u, total_amount |-> co[u].total,
   status |-> "pending"]

\* await supabase.from('orders').insert(...).select().single()
InsertOrder(u) ==
  /\ pc[u] = "InsertOrder"
  /\ \/ /\ OrdersInsertPolicy(u, OrderRow(u))
        /\ orders' = Append(orders, OrderRow(u))
        /\ co' = [co EXCEPT ![u].order = Len(orders) + 1]
        /\ pc' = [pc EXCEPT ![u] = "InsertOrderItems"]
        /\ UNCHANGED <<toast, placing, nfail>>
     \/ /\ Catch(u)
        /\ UNCHANGED co
  /\ UNCHANGED <<products, cart, order_items, cartItems, writers, nedits,
                 nops>>

\* cartItems.map(item => ({order_id, product_id, quantity, price, selected_size}))
orderItems(u) ==
  [k \in 1 .. Len(co[u].items) |->
     [order_id |-> co[u].order, product_id |-> co[u].items[k].product_id,
      quantity |-> co[u].items[k].quantity,
      price |-> co[u].items[k].product.price,
      selected_size |-> co[u].items[k].selected_size]]

\* order_items.product_id REFERENCES products(id): the rows to insert name
\* products that exist
OrderItemsForeignKey(rows) ==
  \A k \in 1 .. Len(rows) : rows[k].product_id \notin deleted

\* await supabase.from('order_items').insert(orderItems); a row that names
\* a deleted product is an error of the insert
InsertOrderItems(u) ==
  /\ pc[u] = "InsertOrderItems"
  /\ \/ /\ \A k \in 1 .. Len(orderItems(u)) :
             OrderItemsInsertPolicy(u, orderItems(u)[k], orders)
        /\ OrderItemsForeignKey(orderItems(u))
        /\ order_items' = order_items \o orderItems(u)
        /\ pc' = [pc EXCEPT ![u] =
                    IF Len(co[u].items) > 0 THEN "UpdateStock" ELSE "ClearCart"]
        /\ UNCHANGED <<orders, toast, placing, nfail>>
     \/ /\ Catch(u)
        /\ UNCHANGED order_items
     \/ /\ ~OrderItemsForeignKey(orderItems(u))
        /\ orders' = ordersAfterCatch(u)
        /\ toast' = [toast EXCEPT ![u] = "error"]
        /\ placing' = [placing EXCEPT ![u] = FALSE]
        /\ pc' = [pc EXCEPT ![u] = "Failed"]
        /\ UNCHANGED <<order_items, nfail>>
  /\ UNCHANGED <<products, cart, cartItems, co, writers, nedits, nops>>

\* faulty variant: the decrement is taken from the stored stock
newStockAtomic(u, item) ==
  products[item.product_id].stock_quantity - item.quantity
\* the value written by the stock update of one cart line: the stock read
\* with the cart minus the line's quantity
newStock(u, item) == item.product.stock_quantity - item.quantity

\* faulty variant: a stock error ends the loop, the later lines are skipped
afterStockUpdateBreaking(u, err) ==
  IF err \/ co[u].k = Len(co[u].items) THEN "ClearCart" ELSE "UpdateStock"
\* faulty variant: a stock error is thrown to the catch block
afterStockUpdateThrowing(u, err) ==
  IF err THEN "Failed"
  ELSE IF co[u].k = Len(co[u].items) THEN "ClearCart" ELSE "UpdateStock"
\* where the loop stands after the update of line k returned (err: with an
\* error): if (stockError) { console.error(...) } and on to the next line
afterStockUpdate(u, err) ==
  IF co[u].k = Len(co[u].items) THEN "ClearCart" ELSE "UpdateStock"

\* one turn of: for (const item of cartItems) { await ...update({stock_quantity}) }
UpdateStock(u) ==
  /\ pc[u] = "UpdateStock"
  /\ LET item == co[u].items[co[u].k]
     IN \/ /\ products' = ProductsUpdate(u, item.product_id,
                             [stock_quantity |-> newStock(u, item)])
           /\ co' = [co EXCEPT ![u].k = @ + 1]
           /\ pc' = [pc EXCEPT ![u] = afterStockUpdate(u, FALSE)]
           /\ UNCHANGED nfail
        \/ /\ nfail < MaxFailures
           /\ nfail' = nfail + 1
           /\ co' = [co EXCEPT ![u].k = @ + 1, ![u].errs = @ + 1]
           /\ pc' = [pc EXCEPT ![u] = afterStockUpdate(u, TRUE)]
           /\ UNCHANGED products
  /\ writers' = IF products' # products THEN writers \cup {u} ELSE writers
  /\ UNCHANGED <<cart, orders, order_items, cartItems, placing, toast, nedits,
                 nops>>

\* faulty variant: the clear step is skipped
cartAfterCheckoutKept(u) == cart
\* the cart table after the clear step of the checkout: await clearCart()
cartAfterCheckout(u) == clearCart(u)

\* await clearCart(); toast.success(...); navigate('/orders'); finally
\* faulty variant: placing is not reset after the success toast
ClearCartWithoutFinally(u) ==
  /\ pc[u] = "ClearCart"
  /\ \/ /\ cart' = cartAfterCheckout(u)
        /\ cartItems' = [cartItems EXCEPT ![u] = fetchCart(u, cart', products)]
        /\ toast' = [toast EXCEPT ![u] = "success"]
        /\ pc' = [pc EXCEPT ![u] = "Committed"]
        /\ UNCHANGED <<orders, nfail, placing>>
     \/ /\ Catch(u)
        /\ UNCHANGED <<cart, cartItems>>
  /\ UNCHANGED <<products, order_items, co, writers, nedits, nops>>

ClearCart(u) ==
  /\ pc[u] = "ClearCart"
  /\ \/ /\ cart' = cartAfterCheckout(u)
        /\ cartItems' = [cartItems EXCEPT ![u] = fetchCart(u, cart', products)]
        /\ toast' = [toast EXCEPT ![u] = "success"]
        /\ placing' = [placing EXCEPT ![u] = FALSE]
        /\ pc' = [pc EXCEPT ![u] = "Committed"]
        /\ UNCHANGED <<orders, nfail>>
     \/ /\ Catch(u)
        /\ UNCHANGED <<cart, cartItems>>
  /\ UNCHANGED <<products, order_items, co, writers, nedits, nops>>

\* the quantity buttons of a cart line: minus is disabled at quantity <= 1,
\* plus at quantity >= item.product.stock_quantity
QuantityButtonEnabled(item, delta) ==
  IF delta = -1 THEN item.quantity > 1
  ELSE item.quantity < item.product.stock_quantity

\* handleQuantityChange(item.id, item.quantity + delta) from a button
HandleQuantityChange(u, idx, delta) ==
  /\ u # NoUser
  /\ idx \in 1 .. Len(cartItems[u])
  /\ LET item == cartItems[u][idx]
         n == item.quantity + delta
     IN /\ QuantityButtonEnabled(item, delta)
        /\ n >= 1
        /\ cart' = updateQuantity(u, item.product_id, item.selected_size, n)
  /\ cartItems' = [cartItems EXCEPT ![u] = fetchCart(u, cart', products)]
  /\ Invoke(u)
  /\ UNCHANGED <<products, orders, order_items, placing, pc, co, toast,
                 writers, nedits, nfail>>

\* faulty variant: every quantity is passed on to the store
QuantityAcceptedAny(n) == TRUE
\* faulty variant: the guard lets quantity 0 through
QuantityAcceptedNonNegative(n) == n >= 0
\* the guard of handleQuantityChange: if (newQuantity < 1) return
QuantityAccepted(n) == n >= 1

\* handleQuantityChange(item.id, n) for line idx of the page and any n
HandleQuantityChangeTo(u, idx, n) ==
  /\ u # NoUser
  /\ idx \in 1 .. Len(cartItems[u])
  /\ LET item == cartItems[u][idx]
     IN IF QuantityAccepted(n)
        THEN /\ cart' = updateQuantity(u, item.product_id,
                                       item.selected_size, n)
             /\ cartItems' = [cartItems EXCEPT
                                ![u] = fetchCart(u, cart', products)]
        ELSE UNCHANGED <<cart, cartItems>>
  /\ Invoke(u)
  /\ UNCHANGED <<products, orders, order_items, placing, pc, co, toast,
                 writers, nedits, nfail>>

\* the remove button of a cart line: removeFromCart(item.id)
HandleRemove(u, idx) ==
  /\ u # NoUser
  /\ idx \in 1 .. Len(cartItems[u])
  /\ cart' = removeFromCart(u, cartItems[u][idx].product_id,
                            cartItems[u][idx].selected_size)
  /\ cartItems' = [cartItems EXCEPT ![u] = fetchCart(u, cart', products)]
  /\ Invoke(u)
  /\ UNCHANGED <<products, orders, order_items, placing, pc, co, toast,
                 writers, nedits, nfail>>

\* the Cart page is opened (or reopened): useCart loads the caller's lines
FetchCart(u) ==
  /\ u # NoUser
  /\ pc[u] \notin Submitting
  /\ cartItems[u] # fetchCart(u, cart, products)
  /\ cartItems' = [cartItems EXCEPT ![u] = fetchCart(u, cart, products)]
  /\ Invoke(u)
  /\ UNCHANGED <<products, cart, orders, order_items, placing, pc, co, toast,
                 writers, nedits, nfail>>

(* ------------------------- pages/Products.tsx ------------------------- *)
\* faulty variant: the query has no is_active filter
fetchProductsUnfiltered(caller, ps) ==
  {p \in Items : ProductsSelectPolicy(caller, ps[p])}
\* fetchProducts: select('*').eq('is_active', true) over the rows of table
\* ps the caller may see; the ids of the products returned
fetchProducts(caller, ps) ==
  {p \in Items : ProductsSelectPolicy(caller, ps[p]) /\ ps[p].is_active}

\* the Add to Cart button: disabled={!user || product.stock_quantity === 0
\* || !selectedSizes[product.id]}, on a product fetchProducts returned
AddToCartEnabled(u, pid, sz) ==
  /\ u # NoUser
  /\ products[pid].is_active
  /\ products[pid].stock_quantity # 0
  /\ sz \in SizeAvailable[pid]

\* handleAddToCart(product.id) with the selected size
HandleAddToCart(u, pid, sz) ==
  /\ AddToCartEnabled(u, pid, sz)
  /\ cart' = addToCart(u, pid, sz)
  /\ cartItems' = [cartItems EXCEPT ![u] = fetchCart(u, cart', products)]
  /\ Invoke(u)
  /\ UNCHANGED <<products, orders, order_items, placing, pc, co, toast,
                 writers, nedits, nfail>>

\* String.prototype.toLowerCase over the letters in use
toLowerCase(str) ==
  [i \in 1 .. Len(str) |->
     CASE str[i] = "A" -> "a" [] str[i] = "C" -> "c" [] str[i] = "H" -> "h"
       [] str[i] = "N" -> "n" [] str[i] = "P" -> "p" [] str[i] = "R" -> "r"
       [] str[i] = "U" -> "u" [] OTHER -> str[i]]

\* String.prototype.includes
includes(str, term) ==
  \E i \in 1 .. Len(str) - Len(term) + 1 :
    SubSeq(str, i, i + Len(term) - 1) = term

\* faulty variant: the '100-200' branch is missing
matchesPriceNoMiddle(price, priceRange) ==
  CASE priceRange = "under-100" -> price < 10000
    [] priceRange = "over-200" -> price > 20000
    [] OTHER -> TRUE
\* matchesPrice of filteredProducts; prices in cents
matchesPrice(price, priceRange) ==
  CASE priceRange = "under-100" -> price < 10000
    [] priceRange = "100-200" -> price >= 10000 /\ price <= 20000
    [] priceRange = "over-200" -> price > 20000
    [] OTHER -> TRUE

\* const filteredProducts = products.filter(product => ...)
filteredProducts(pg) ==
  SelectSeq(pg.products,
    LAMBDA product :
      /\ \/ includes(toLowerCase(product.name), toLowerCase(pg.searchTerm))
         \/ includes(toLowerCase(product.brand), toLowerCase(pg.searchTerm))
      /\ pg.selectedBrand = All \/ product.brand = pg.selectedBrand
      /\ matchesPrice(product.price, pg.priceRange))

\* const brands = [...new Set(products.map(p => p.brand))]
brands(pg) == {pg.products[i].brand : i \in 1 .. Len(pg.products)}

\* product rows a catalog read can return: three of the sample products
\* and three an admin priced at and next to the bracket limits
Catalog ==
  << [name |-> <<"C", "h">>, brand |-> <<"C", "o">>, price |-> 5999],
     [name |-> <<"A", "i">>, brand |-> <<"N", "i">>, price |-> 12999],
     [name |-> <<"9", "9">>, brand |-> <<"N", "b">>, price |-> 19999],
     [name |-> <<"R", "s">>, brand |-> <<"P", "u">>, price |-> 10000],
     [name |-> <<"U", "b">>, brand |-> <<"A", "d">>, price |-> 20000],
     [name |-> <<"Z", "x">>, brand |-> <<"N", "i">>, price |-> 20001] >>

\* what is typed into the search box
SearchInputs == {<< >>, <<"n">>, <<"C", "H">>}
PriceRanges == {"all", "under-100", "100-200", "over-200"}

RECURSIVE Pick(_, _, _)
\* the rows of sequence s from position i on whose position is in set S
Pick(s, S, i) ==
  IF i > Len(s) THEN << >>
  ELSE (IF i \in S THEN <<s[i]>> ELSE << >>) \o Pick(s, S, i + 1)

\* fetchProducts returned: setProducts(data || []); setLoading(false)
SetProducts(data) ==
  /\ page.loading
  /\ page' = [page EXCEPT !.products = data, !.loading = FALSE]

\* onChange of the search box: setSearchTerm(e.target.value)
SetSearchTerm(term) ==
  /\ ~page.loading
  /\ page' = [page EXCEPT !.searchTerm = term]

\* onValueChange of the brand select: setSelectedBrand
SetSelectedBrand(brand) ==
  /\ ~page.loading
  /\ brand \in brands(page) \cup {All}
  /\ page' = [page EXCEPT !.selectedBrand = brand]

\* onValueChange of the price select: setPriceRange
SetPriceRange(range) ==
  /\ ~page.loading
  /\ page' = [page EXCEPT !.priceRange = range]

(* --------------------------- pages/Admin.tsx -------------------------- *)
\* faulty variant: the order lines follow the price of their product
orderItemsRepriced(pid, price) ==
  [i \in 1 .. Len(order_items) |->
     IF order_items[i].product_id = pid
     THEN [order_items[i] EXCEPT !.price = price] ELSE order_items[i]]
\* the order_items table after an update of product pid: the request names
\* the products table only and order_items.price is a column of its own
orderItemsAfterProductUpdate(pid, price) == order_items

\* handleSubmit with editingProduct set: update(productData).eq('id', id)
HandleSubmit(u, pid, price, stock) ==
  /\ u # NoUser
  /\ products' = ProductsUpdate(u, pid,
                    [price |-> price, stock_quantity |-> stock])
  /\ order_items' = orderItemsAfterProductUpdate(pid, price)
  /\ nedits < MaxEdits
  /\ nedits' = nedits + 1
  /\ writers' = IF products' # products THEN writers \cup {u} ELSE writers
  /\ Invoke(u)
  /\ UNCHANGED <<cart, orders, cartItems, placing, pc, co, toast, nfail>>

\* toggleProductStatus(product.id, product.is_active)
ToggleProductStatus(u, pid) ==
  /\ u # NoUser
  /\ products' = ProductsUpdate(u, pid,
                    [is_active |-> ~products[pid].is_active])
  /\ nedits < MaxEdits
  /\ nedits' = nedits + 1
  /\ writers' = IF products' # products THEN writers \cup {u} ELSE writers
  /\ Invoke(u)
  /\ UNCHANGED <<cart, orders, order_items, cartItems, placing, pc, co, toast,
                 nfail>>

\* faulty variant: order_items.product_id carries no foreign key
ReferencedNever(pid) == FALSE
\* order_items.product_id REFERENCES products(id), with no ON DELETE
\* action: a product that an order line names cannot be deleted
Referenced(pid) ==
  \E i \in 1 .. Len(order_items) : order_items[i].product_id = pid

\* cart.product_id REFERENCES products(id) ON DELETE CASCADE
cartAfterProductDelete(pid) == {r \in cart : r.product_id # pid}

\* handleDelete(productId): delete().eq('id', productId); the policy leaves
\* a non-admin no row to delete, which is no error
HandleDelete(u, pid) ==
  /\ u # NoUser
  /\ Invoke(u)
  /\ IF ProductsManagePolicy(u) /\ pid \notin deleted /\ Referenced(pid)
     THEN /\ toast' = [toast EXCEPT ![u] = "error"]
          /\ UNCHANGED <<deleted, cart>>
     ELSE /\ toast' = [toast EXCEPT ![u] = "success"]
          /\ IF ProductsManagePolicy(u) /\ pid \notin deleted
             THEN /\ deleted' = deleted \cup {pid}
                  /\ cart' = cartAfterProductDelete(pid)
             ELSE UNCHANGED <<deleted, cart>>
  /\ UNCHANGED <<products, orders, order_items, cartItems, placing, pc, co,
                 writers, nedits, nfail>>

\* faulty variant: the effect fetches for every signed-in user
AdminUseEffectAnyUser(a) ==
  IF a.user = NoUser
  THEN [a EXCEPT !.route = "/auth", !.effects = @ + 1]
  ELSE [a EXCEPT !.fetches = @ + 1, !.loading = FALSE, !.effects = @ + 1]
\* the useEffect of the Admin page, run with the hook values of a render:
\* navigate('/auth') without a user, navigate('/') and the error toast for
\* a resolved non-admin, fetchData and fetchAnalytics if isAdmin; fetchData
\* ends with setLoading(false)
AdminUseEffect(a) ==
  IF a.user = NoUser
  THEN [a EXCEPT !.route = "/auth", !.effects = @ + 1]
  ELSE IF ~a.roleLoading /\ ~a.isAdmin
  THEN [a EXCEPT !.route = "/", !.denied = TRUE, !.effects = @ + 1]
  ELSE IF a.isAdmin
  THEN [a EXCEPT !.fetches = @ + 1, !.loading = FALSE, !.effects = @ + 1]
  ELSE [a EXCEPT !.effects = @ + 1]

\* the render of the Admin page reaches the product table and its buttons:
\* not (!user || roleLoading), not !isAdmin, not loading
MutationsOffered(a) ==
  /\ a.route = "/admin"
  /\ ~(a.user = NoUser \/ a.roleLoading)
  /\ a.isAdmin
  /\ ~a.loading

\* useAuth: somebody signs in on the auth page; useUserRole starts the lookup
SignIn(u) ==
  /\ adminPage.user = NoUser /\ adminPage.route # "/admin"
  /\ adminPage' = [adminPage EXCEPT !.user = u, !.roleLoading = TRUE,
                                     !.isAdmin = FALSE, !.route = "/"]
  /\ UNCHANGED StoreVarsOfAdmin

\* useAuth: the user signs out; on the Admin page the effect runs again
SignOut ==
  /\ adminPage.user # NoUser
  /\ LET a == [adminPage EXCEPT !.user = NoUser, !.roleLoading = FALSE,
                                 !.isAdmin = FALSE]
     IN IF adminPage.route = "/admin"
        THEN Invoke(adminPage.user) /\ adminPage' = AdminUseEffect(a)
        ELSE adminPage' = a /\ UNCHANGED nops
  /\ UNCHANGED StoreVarsOfAdmin

\* useUserRole: the role lookup of the signed-in user returns; on the Admin
\* page the effect runs again
ResolveRole ==
  /\ adminPage.user # NoUser /\ adminPage.roleLoading
  /\ LET a == [adminPage EXCEPT !.roleLoading = FALSE,
                                 !.isAdmin = has_role(adminPage.user, "admin")]
     IN IF adminPage.route = "/admin"
        THEN Invoke(adminPage.user) /\ adminPage' = AdminUseEffect(a)
        ELSE adminPage' = a /\ UNCHANGED nops
  /\ UNCHANGED StoreVarsOfAdmin

\* the browser opens '/admin': the page mounts (loading is true again) and
\* its effect runs
VisitAdmin ==
  /\ adminPage.route # "/admin"
  /\ Invoke(adminPage.user)
  /\ adminPage' = AdminUseEffect([adminPage EXCEPT !.route = "/admin",
                                                    !.loading = TRUE])
  /\ UNCHANGED StoreVarsOfAdmin

(* --------------------------- pages/Orders.tsx ------------------------- *)
\* "Users can view own orders" OR-ed with "Admins can view all orders"
OrdersSelectPolicy(caller, row) ==
  caller # NoUser /\ (row.user_id = caller \/ has_role(caller, "admin"))

\* "Users can view own order items" OR-ed with "Admins can view all order
\* items"
OrderItemsSelectPolicy(caller, row, os) ==
  \/ \E o \in 1 .. Len(os) : os[o].id = row.order_id /\ os[o].user_id = caller
  \/ has_role(caller, "admin")

\* what a to-one embed holds when the caller may not see the row: an embed
\* is a sequence of at most one row, null the empty one
Null == << >>

\* product:products (name, image_url) of an order line: the products row
\* as far as the caller may select it
embeddedProduct(caller, pid) ==
  IF ProductsSelectPolicy(caller, products[pid])
  THEN << [name |-> pid, image_url |-> pid] >> ELSE Null

\* order_items ( *, product:products (name, image_url) ) of order o
embeddedItems(caller, o) ==
  LET rows == SelectSeq(order_items,
                LAMBDA r : r.order_id = o
                           /\ OrderItemsSelectPolicy(caller, r, orders))
  IN [k \in 1 .. Len(rows) |->
        [order_id |-> rows[k].order_id, product_id |-> rows[k].product_id,
         quantity |-> rows[k].quantity, price |-> rows[k].price,
         selected_size |-> rows[k].selected_size,
         product |-> embeddedProduct(caller, rows[k].product_id)]]

\* sequence s from its last element to its first
Reverse(s) == [i \in 1 .. Len(s) |-> s[Len(s) + 1 - i]]

\* the rows of orders the caller may select, with their embedded lines
selectOrders(caller) ==
  LET rows == SelectSeq(orders, LAMBDA o : OrdersSelectPolicy(caller, o))
  IN [k \in 1 .. Len(rows) |->
        [id |-> rows[k].id, user_id |-> rows[k].user_id,
         total_amount |-> rows[k].total_amount, status |-> rows[k].status,
         order_items |-> embeddedItems(caller, rows[k].id)]]

\* faulty variant: the query has no user_id filter
fetchOrdersUnfiltered(caller) ==
  IF caller = NoUser THEN << >> ELSE Reverse(selectOrders(caller))
\* fetchOrders: if (!user) return; select(...).eq('user_id', user.id)
\* .order('created_at', {ascending: false}); orders are created in the
\* order of their ids
fetchOrders(caller) ==
  IF caller = NoUser THEN << >>
  ELSE Reverse(SelectSeq(selectOrders(caller),
                         LAMBDA o : o.user_id = caller))

\* the storefront with the checkout, the catalog add, the quantity buttons
\* and the admin product handlers
Next ==
  \/ \E u \in Callers : PlaceOrderRejected(u) /\ UNCHANGED <<last, page, adminPage, deleted>>
  \/ \E u \in Callers : PlaceOrder(u) /\ UNCHANGED <<last, page, adminPage, deleted>>
  \/ \E u \in Callers : InsertOrder(u) /\ UNCHANGED <<last, page, adminPage, deleted>>
  \/ \E u \in Callers : InsertOrderItems(u) /\ UNCHANGED <<last, page, adminPage, deleted>>
  \/ \E u \in Callers : UpdateStock(u) /\ UNCHANGED <<last, page, adminPage, deleted>>
  \/ \E u \in Callers : ClearCart(u) /\ UNCHANGED <<last, page, adminPage, deleted>>
  \/ \E u \in Callers, idx \in 1 .. Len(Keys), d \in {-1, 1} :
       HandleQuantityChange(u, idx, d) /\ UNCHANGED <<last, page, adminPage, deleted>>
  \/ \E u \in Callers : FetchCart(u) /\ UNCHANGED <<last, page, adminPage, deleted>>
  \/ \E u \in Callers, pid \in Items, sz \in {"8", "9"} :
       HandleAddToCart(u, pid, sz) /\ UNCHANGED <<last, page, adminPage, deleted>>
  \/ \E u \in Callers, pid \in Items, price \in PriceInputs,
        stock \in StockInputs :
       HandleSubmit(u, pid, price, stock) /\ UNCHANGED <<last, page, adminPage, deleted>>
  \/ \E u \in Callers, pid \in Items :
       ToggleProductStatus(u, pid) /\ UNCHANGED <<last, page, adminPage, deleted>>

Spec == Init /\ [][Next]_vars

\* the await that handlePlaceOrder of caller u stands at returns and the
\* handler runs to its next await or to its end
AwaitReturns(u) ==
  /\ \/ InsertOrder(u)
     \/ InsertOrderItems(u)
     \/ UpdateStock(u)
     \/ ClearCart(u)
  /\ UNCHANGED <<last, page, adminPage, deleted>>

\* the checkouts of the owners, the catalog adds that fill their carts and
\* the product form of the admin
LiveNext ==
  \/ \E u \in Callers, pid \in Items, sz \in {"8", "9"} :
       HandleAddToCart(u, pid, sz) /\ UNCHANGED <<last, page, adminPage, deleted>>
  \/ \E u \in Callers : PlaceOrder(u) /\ UNCHANGED <<last, page, adminPage, deleted>>
  \/ \E u \in Users : AwaitReturns(u)
  \/ \E u \in Callers, pid \in Items, price \in PriceInputs,
        stock \in StockInputs :
       HandleSubmit(u, pid, price, stock) /\ UNCHANGED <<last, page, adminPage, deleted>>

\* the storefront where every remote store call returns
LiveSpec ==
  Init /\ [][LiveNext]_vars /\ \A u \in Users : WF_vars(AwaitReturns(u))

(* --------------------------- cart contract ---------------------------- *)
\* the quantities handed to handleQuantityChange
QuantityInputs == -1 .. MaxStock

\* the record of a cart operation
CartOp(op, u, pid, sz, n) ==
  [op |-> op, user |-> u, product_id |-> pid, selected_size |-> sz, n |-> n]

\* the cart operations of section 4.1 (add, setQuantity, remove) and the
\* checkout with its clear, each cart operation recorded in last
CartNext ==
  \/ \E u \in Callers, pid \in Items, sz \in {"8", "9"} :
       /\ HandleAddToCart(u, pid, sz)
       /\ last' = CartOp("add", u, pid, sz, 1)
       /\ UNCHANGED <<page, adminPage, deleted>>
  \/ \E u \in Callers, idx \in 1 .. Len(Keys), n \in QuantityInputs :
       /\ HandleQuantityChangeTo(u, idx, n)
       /\ last' = CartOp("setQuantity", u, cartItems[u][idx].product_id,
                         cartItems[u][idx].selected_size, n)
       /\ UNCHANGED <<page, adminPage, deleted>>
  \/ \E u \in Callers, idx \in 1 .. Len(Keys) :
       /\ HandleRemove(u, idx)
       /\ last' = CartOp("remove", u, cartItems[u][idx].product_id,
                         cartItems[u][idx].selected_size, 1)
       /\ UNCHANGED <<page, adminPage, deleted>>
  \/ \E u \in Callers :
       /\ PlaceOrder(u)
       /\ last' = CartOp("checkout", u, "p1", "8", 1)
       /\ UNCHANGED <<page, adminPage, deleted>>
  \/ \E u \in Callers : InsertOrder(u) /\ UNCHANGED <<last, page, adminPage, deleted>>
  \/ \E u \in Callers : InsertOrderItems(u) /\ UNCHANGED <<last, page, adminPage, deleted>>
  \/ \E u \in Callers : UpdateStock(u) /\ UNCHANGED <<last, page, adminPage, deleted>>
  \/ \E u \in Callers : ClearCart(u) /\ UNCHANGED <<last, page, adminPage, deleted>>

CartSpec == Init /\ [][CartNext]_vars

(* --------------------------- catalog filter --------------------------- *)
\* everything but the Products page
StoreVars ==
  <<products, cart, orders, order_items, cartItems, placing, pc, co, toast,
    writers, nedits, nops, nfail, last, adminPage, deleted>>

\* the Products page: the catalog arrives, then the filters are set
FilterNext ==
  \/ \E S \in SUBSET (1 .. Len(Catalog)) :
       SetProducts(Pick(Catalog, S, 1)) /\ UNCHANGED StoreVars
  \/ \E term \in SearchInputs : SetSearchTerm(term) /\ UNCHANGED StoreVars
  \/ \E i \in 1 .. Len(Catalog) :
       SetSelectedBrand(Catalog[i].brand) /\ UNCHANGED StoreVars
  \/ SetSelectedBrand(All) /\ UNCHANGED StoreVars
  \/ \E range \in PriceRanges : SetPriceRange(range) /\ UNCHANGED StoreVars

FilterSpec == Init /\ [][FilterNext]_vars

(* --------------------------- admin gate ------------------------------- *)
\* the session (sign in, role lookup, sign out), the Admin page and the
\* product handlers its render offers
AdminNext ==
  \/ \E u \in Users : SignIn(u) /\ UNCHANGED <<nops, last, page, deleted>>
  \/ SignOut /\ UNCHANGED <<last, page, deleted>>
  \/ ResolveRole /\ UNCHANGED <<last, page, deleted>>
  \/ VisitAdmin /\ UNCHANGED <<last, page, deleted>>
  \/ \E pid \in Items, price \in PriceInputs, stock \in StockInputs :
       /\ MutationsOffered(adminPage)
       /\ HandleSubmit(adminPage.user, pid, price, stock)
       /\ UNCHANGED <<last, page, adminPage, deleted>>
  \/ \E pid \in Items :
       /\ MutationsOffered(adminPage)
       /\ ToggleProductStatus(adminPage.user, pid)
       /\ UNCHANGED <<last, page, adminPage, deleted>>

AdminSpec == Init /\ [][AdminNext]_vars

(* --------------------------- product delete --------------------------- *)
\* the checkouts of the owners and the Delete button of the Admin page; the
\* catalog shows the products that exist; each handler is recorded in last
DeleteNext ==
  \/ \E u \in Callers, pid \in Items \ deleted, sz \in {"8", "9"} :
       /\ HandleAddToCart(u, pid, sz)
       /\ last' = CartOp("add", u, pid, sz, 1)
       /\ UNCHANGED <<page, adminPage, deleted>>
  \/ \E u \in Callers :
       /\ PlaceOrder(u)
       /\ last' = CartOp("checkout", u, "p1", "8", 1)
       /\ UNCHANGED <<page, adminPage, deleted>>
  \/ \E u \in Users : AwaitReturns(u)
  \/ \E u \in Callers, pid \in Items :
       /\ HandleDelete(u, pid)
       /\ last' = CartOp("delete", u, pid, "8", 1)
       /\ UNCHANGED <<page, adminPage>>

DeleteSpec == Init /\ [][DeleteNext]_vars

(* ============================ properties ============================== *)
IsAdmin(u) == has_role(u, "admin")

\* the sum of quantity * price over the order lines of order o
LineSum(o) == SumSeq(SelectSeq(order_items, LAMBDA r : r.order_id = o), 1)

RECURSIVE QtySum(_, _, _)
\* the quantity the lines of sequence s from position i on hold of product p
QtySum(s, p, i) ==
  IF i > Len(s) THEN 0
  ELSE (IF s[i].product_id = p THEN s[i].quantity ELSE 0) + QtySum(s, p, i + 1)

\* nobody but u has placed an order and no product was edited
Solo(u) ==
  /\ nedits = 0
  /\ \A v \in Users \ {u} : pc[v] \in {"Idle", "Rejected"}

\* no two lines of the checked-out cart are of the same product
OneLinePerItem(u) ==
  \A i, j \in 1 .. Len(co[u].items) :
    co[u].items[i].product_id = co[u].items[j].product_id => i = j

(* C1: a checkout that reached Committed produced an order whose
   total_amount is the sum of price * quantity over the order lines
   inserted for it. *)
C1_TotalEqualsLineSum ==
  \A u \in Users :
    pc[u] = "Committed" =>
      /\ co[u].order \in 1 .. Len(orders)
      /\ orders[co[u].order].user_id = u
      /\ orders[co[u].order].total_amount = LineSum(co[u].order)

\* a committed order of two lines, one of them of quantity two
C1_Witness ==
  \E u \in Users :
    /\ pc[u] = "Committed"
    /\ Len(co[u].items) >= 2
    /\ \E k \in 1 .. Len(co[u].items) : co[u].items[k].quantity >= 2
    /\ orders[co[u].order].total_amount = LineSum(co[u].order)

(* C2: the stock_quantity of every product is >= 0 in every reachable
   state of the store. *)
C2_StockNeverNegative ==
  \A p \in Items : products[p].stock_quantity >= 0

\* u and v each checked out a line of product p whose quantity was the whole
\* stock of p, and both checkouts read the same stock
BothTookAllStock(u, v, p) ==
  /\ u # v
  /\ co[u].stock0[p] > 0
  /\ co[v].stock0[p] = co[u].stock0[p]
  /\ \E i \in 1 .. Len(co[u].items) :
       /\ co[u].items[i].product_id = p
       /\ co[u].items[i].quantity = co[u].stock0[p]
  /\ \E j \in 1 .. Len(co[v].items) :
       /\ co[v].items[j].product_id = p
       /\ co[v].items[j].quantity = co[v].stock0[p]

\* the quantity of product p on the order lines of the orders in os
OrderedQty(p, os) ==
  QtySum(SelectSeq(order_items, LAMBDA r : r.order_id \in os), p, 1)

C3_OversoldWhenBothCommit ==
  \A u, v \in Users, p \in Items :
    (BothTookAllStock(u, v, p) /\ pc[u] = "Committed" /\ pc[v] = "Committed")
      => OrderedQty(p, {co[u].order, co[v].order}) > co[u].stock0[p]

C3_StockWrittenFromEarlierRead ==
  \A u \in Users :
    (pc[u] = "UpdateStock" /\ co'[u].k = co[u].k + 1 /\ products' # products)
      => LET item == co[u].items[co[u].k]
         IN products'[item.product_id].stock_quantity =
              item.product.stock_quantity - item.quantity

(* C3: when two owners each hold a line of the same product with quantity =
   stock and both check out, nothing keeps both from reaching Committed:
   the quantity ordered then exceeds the stock there was, and every stock
   update that changes the store writes the stock read when the cart was
   loaded minus the line's quantity, whatever the store holds by then. *)
C3_Oversell ==
  /\ []C3_OversoldWhenBothCommit
  /\ [][C3_StockWrittenFromEarlierRead]_vars

\* both owners committed and more is ordered than there was
C3_Witness ==
  \E u, v \in Users, p \in Items :
    /\ BothTookAllStock(u, v, p)
    /\ pc[u] = "Committed" /\ pc[v] = "Committed"
    /\ co[u].errs = 0 /\ co[v].errs = 0
    /\ OrderedQty(p, {co[u].order, co[v].order}) = 2 * co[u].stock0[p]

(* C4: single actor, every stock update answered without error, one line
   per product: after the checkout reached Committed the stored stock of
   each product of the cart is its stock before the checkout minus the
   quantity checked out. *)
C4_StockDecreasedByQuantity ==
  \A u \in Users :
    (pc[u] = "Committed" /\ Solo(u) /\ co[u].errs = 0 /\ OneLinePerItem(u))
      => \A k \in 1 .. Len(co[u].items) :
           products[co[u].items[k].product_id].stock_quantity =
             co[u].stock0[co[u].items[k].product_id] - co[u].items[k].quantity

(* C5: at the step on which a checkout reaches Committed (success
   notification shown) the store holds no cart row of that owner and the
   owner's page shows no line. *)
C5_CartEmptyAtCommit ==
  [][\A u \in Users :
       (pc[u] # "Committed" /\ pc'[u] = "Committed")
         => /\ {r \in cart' : r.user_id = u} = {}
            /\ cartItems'[u] = << >>
            /\ toast'[u] = "success"]_vars

\* an owner committed, has no cart row, and another owner's row is still there
C5_Witness ==
  \E u \in Users :
    /\ pc[u] = "Committed"
    /\ toast[u] = "success"
    /\ {r \in cart : r.user_id = u} = {}
    /\ \E r \in cart : r.user_id # u

C7_EveryOrderTotalMatches ==
  \A o \in 1 .. Len(orders) : LineSum(o) = orders[o].total_amount

C9_StockDecreasedBySumOfLines ==
  \A u \in Users :
    (pc[u] = "Committed" /\ IsAdmin(u) /\ Solo(u) /\ co[u].errs = 0)
      => \A p \in Items :
           products[p].stock_quantity =
             co[u].stock0[p] - QtySum(co[u].items, p, 1)

LinesOf(o) == SelectSeq(order_items, LAMBDA r : r.order_id = o)

\* sequence s is an initial part of sequence t
IsPrefix(s, t) == Len(s) <= Len(t) /\ SubSeq(t, 1, Len(s)) = s

C11_OrderKeptAfterFailure ==
  \A u \in Users :
    (pc[u] = "Failed" /\ co[u].order # 0)
      => /\ co[u].order \in 1 .. Len(orders)
         /\ orders[co[u].order] =
              [id |-> co[u].order, user_id |-> u,
               total_amount |-> co[u].total, status |-> "pending"]

C11_NoCompensation ==
  /\ IsPrefix(orders, orders') /\ IsPrefix(order_items, order_items')
  /\ \A u \in Users :
       /\ (pc[u] = "InsertOrderItems" /\ pc'[u] = "Failed")
            => /\ co[u].order \in 1 .. Len(orders')
               /\ orders'[co[u].order].user_id = u
               /\ UNCHANGED <<products, cart, orders, order_items>>
       /\ (pc[u] = "UpdateStock" /\ co'[u] # co[u] /\ nfail' # nfail)
            => /\ co[u].order \in 1 .. Len(orders')
               /\ orders'[co[u].order].user_id = u
               /\ Len(LinesOf(co[u].order)') = Len(co[u].items)
               /\ UNCHANGED <<products, cart, orders, order_items>>

(* C11: a checkout step that fails after earlier steps succeeded undoes
   nothing: when the order-line insert fails the order row of step 1 stays
   in the store, when a stock update fails the order and all its lines
   stay, and no step of any checkout ever removes or rewrites a row of
   orders or order_items. *)
C11_EarlierWritesPersist ==
  /\ []C11_OrderKeptAfterFailure
  /\ [][C11_NoCompensation]_vars

\* the order-line insert failed: the order is in the store without lines
C11_Witness ==
  \E u \in Users :
    /\ pc[u] = "Failed"
    /\ co[u].order \in 1 .. Len(orders)
    /\ orders[co[u].order].user_id = u
    /\ LinesOf(co[u].order) = << >>

(* C12: once an order and its lines are in the store, no step of any
   operation (product edit, deactivation, cart mutation, a checkout)
   changes the order's total_amount or the price or the quantity of any of
   its lines: every row of orders and of order_items is after each step
   what it was before. *)
C12_OrderRowsNeverChange ==
  [][/\ \A o \in 1 .. Len(orders) :
          /\ o \in 1 .. Len(orders')
          /\ orders'[o].total_amount = orders[o].total_amount
     /\ \A i \in 1 .. Len(order_items) :
          /\ i \in 1 .. Len(order_items')
          /\ order_items'[i].order_id = order_items[i].order_id
          /\ order_items'[i].price = order_items[i].price
          /\ order_items'[i].quantity = order_items[i].quantity]_vars

\* a committed order of a buyer who cannot write products holds a line at
\* the old price of a product whose price and stock an admin edited after
\* the checkout began
C12_Witness ==
  \E u \in Users, p \in Items :
    /\ ~IsAdmin(u)
    /\ pc[u] = "Committed"
    /\ co[u].stock0[p] # products[p].stock_quantity
    /\ \E i \in 1 .. Len(order_items) :
         /\ order_items[i].order_id = co[u].order
         /\ order_items[i].product_id = p
         /\ order_items[i].price # products[p].price
         /\ orders[co[u].order].total_amount = LineSum(co[u].order)

(* C13: each order line a checkout inserts carries the price its product
   has in the store at the instant of the checkout (when the order was
   placed, or when the line is inserted), also when an admin changed the
   price after the owner's cart was loaded. *)
C13_LinePriceIsStorePriceAtCheckout ==
  [][\A u \in Users :
       (pc[u] = "InsertOrderItems" /\ order_items' # order_items)
         => \A i \in Len(order_items) + 1 .. Len(order_items') :
              \/ order_items'[i].price
                    = products[order_items'[i].product_id].price
              \/ order_items'[i].price
                    = co[u].price0[order_items'[i].product_id]]_vars

\* the positions a checkout can move to from position a in one step
StepsFrom(a) ==
  CASE a = "InsertOrder" -> {"InsertOrderItems", "Failed"}
    [] a = "InsertOrderItems" -> {"UpdateStock", "Failed"}
    [] a = "UpdateStock" -> {"UpdateStock", "ClearCart"}
    [] a = "ClearCart" -> {"Committed", "Failed"}
    [] OTHER -> {"InsertOrder", "Rejected"}

(* C14: within one checkout the store writes come strictly in the order
   order insert, order-line insert, one stock update per line in cart
   order, cart clear, each step taken only after the previous one was
   answered; an order insert or order-line insert that fails ends the
   checkout in Failed, having written nothing, and no stock update or cart
   clear follows. *)
C14_StepsInOrder ==
  [][\A u \in Callers :
       /\ (pc'[u] # pc[u] \/ co'[u] # co[u]) => pc'[u] \in StepsFrom(pc[u])
       /\ (pc[u] = "InsertOrder" /\ pc'[u] = "InsertOrderItems")
            => /\ orders' = Append(orders, orders'[Len(orders')])
               /\ orders'[Len(orders')].user_id = u
               /\ UNCHANGED <<order_items, products, cart>>
       /\ (pc[u] = "InsertOrderItems" /\ pc'[u] = "UpdateStock")
            => /\ Len(order_items') = Len(order_items) + Len(co[u].items)
               /\ co[u].k = 1
               /\ UNCHANGED <<orders, products, cart>>
       /\ (pc[u] = "UpdateStock" /\ co'[u] # co[u])
            => /\ co'[u].k = co[u].k + 1
               /\ (pc'[u] = "ClearCart") = (co[u].k = Len(co[u].items))
               /\ \A p \in Items :
                    products'[p] # products[p]
                      => p = co[u].items[co[u].k].product_id
               /\ UNCHANGED <<orders, order_items, cart>>
       /\ (pc[u] = "ClearCart" /\ pc'[u] = "Committed")
            => UNCHANGED <<orders, order_items, products>>
       /\ (pc[u] \in {"InsertOrder", "InsertOrderItems"}
             /\ pc'[u] = "Failed")
            => UNCHANGED <<orders, order_items, products, cart>>
       /\ (pc[u] = "Failed" /\ pc'[u] = pc[u])
            => \A r \in cart :
                 r.user_id = u
                   => \E q \in cart' :
                        /\ q.user_id = u
                        /\ q.product_id = r.product_id
                        /\ q.selected_size = r.selected_size]_vars

\* the order insert of a checkout failed: no order, no order line, the
\* stock loop never started and the owner's cart rows are still there
C14_Witness ==
  \E u \in Users :
    /\ pc[u] = "Failed"
    /\ co[u].order = 0 /\ co[u].k = 1
    /\ orders = << >> /\ order_items = << >>
    /\ \E r \in cart : r.user_id = u
    /\ \A p \in Items : products[p].stock_quantity = co[u].stock0[p]

\* the rows of table c for the triple (u, pid, sz)
RowsOf(c, u, pid, sz) ==
  {r \in c : r.user_id = u /\ r.product_id = pid /\ r.selected_size = sz}

C15_OneLinePerTriple ==
  \A u \in Users, pid \in Items : \A sz \in SizeAvailable[pid] :
    Cardinality(RowsOf(cart, u, pid, sz)) <= 1

C15_AddCreatesOrIncrements ==
  \A u \in Users, pid \in Items : \A sz \in SizeAvailable[pid] :
    (nops' = nops + 1 /\ last' = CartOp("add", u, pid, sz, 1))
      => LET before == RowsOf(cart, u, pid, sz)
             q == IF before = {} THEN 0
                  ELSE (CHOOSE r \in before : TRUE).quantity
         IN /\ RowsOf(cart', u, pid, sz) =
                 {[user_id |-> u, product_id |-> pid, selected_size |-> sz,
                   quantity |-> q + 1]}
            /\ (last = CartOp("add", u, pid, sz, 1) /\ q = 1)
                 => \E r \in cart' :
                      /\ r.user_id = u /\ r.product_id = pid
                      /\ r.selected_size = sz /\ r.quantity = 2
            /\ \A r \in cart : r \notin before => r \in cart'

(* C15: after any sequence of cart operations the store holds at most one
   cart row per (owner, product, size); an add leaves exactly one row for
   its triple, with quantity 1 when there was none and the quantity raised
   by one when there was one, so that add(u,i,v) followed by add(u,i,v)
   leaves one row of quantity 2. *)
C15_OneLineAfterAdds ==
  /\ []C15_OneLinePerTriple
  /\ [][C15_AddCreatesOrIncrements]_vars

\* two operations were invoked, the second an add of a triple: its one row
\* holds quantity 2
C15_Witness ==
  \E u \in Users, pid \in Items : \E sz \in SizeAvailable[pid] :
    /\ nops = 2
    /\ last = CartOp("add", u, pid, sz, 1)
    /\ RowsOf(cart, u, pid, sz) =
         {[user_id |-> u, product_id |-> pid, selected_size |-> sz,
           quantity |-> 2]}

C17_MutatedLineWithinStock ==
  [][\A r \in cart' :
       (\A q \in RowsOf(cart, r.user_id, r.product_id, r.selected_size) :
          q.quantity < r.quantity)
         => r.quantity <= products'[r.product_id].stock_quantity]_vars

(* C18: every cart row, and every line a Cart page shows, has quantity >= 1
   in every state reachable by add, quantity change (to any requested
   value), remove and checkout with its clear. *)
C18_QuantityAtLeastOne ==
  /\ \A r \in cart : r.quantity >= 1
  /\ \A u \in Callers : \A k \in 1 .. Len(cartItems[u]) :
       cartItems[u][k].quantity >= 1

\* one owner checked out and had the cart cleared, then a line of another
\* cart was changed or removed, and rows remain
C18_Witness ==
  /\ \E u \in Users : pc[u] = "Committed" /\ last.user # u
  /\ last.op \in {"setQuantity", "remove"}
  /\ cart # {}
  /\ \A r \in cart : r.quantity >= 1

C19_InactiveNotInCatalog ==
  \A u \in Callers, p \in Items :
    ~products[p].is_active => p \notin fetchProducts(u, products)

C19_DeactivationKeepsOrderLines ==
  \A p \in Items :
    (products[p].is_active /\ ~products'[p].is_active)
      => /\ \A u \in Callers :
              /\ p \in fetchProducts(u, products)
              /\ p \notin fetchProducts(u, products')
         /\ UNCHANGED <<orders, order_items>>

(* C19: once an admin has deactivated a product, a catalog read of any
   caller (the admin included) does not return it, and the deactivation
   leaves every order and every order line, those of the product included,
   as they were. *)
C19_DeactivatedLeavesCatalogOnly ==
  /\ []C19_InactiveNotInCatalog
  /\ [][C19_DeactivationKeepsOrderLines]_vars

\* a product with an order line was deactivated: the line is in the store,
\* the catalog read of the admin does not return the product
C19_Witness ==
  \E p \in Items, a \in Users :
    /\ ~products[p].is_active
    /\ IsAdmin(a) /\ a \in writers
    /\ p \notin fetchProducts(a, products)
    /\ \E i \in 1 .. Len(order_items) :
         /\ order_items[i].product_id = p
         /\ order_items[i].quantity >= 1
         /\ order_items[i].order_id \in 1 .. Len(orders)

\* the prices of the rows of sequence s
PricesOf(s) == {s[i].price : i \in 1 .. Len(s)}

\* the page holds just the products priced 59.99, 129.99 and 199.99 and
\* neither a search term nor a brand is set
TheThreeLoaded ==
  /\ ~page.loading
  /\ Len(page.products) = 3
  /\ PricesOf(page.products) = {5999, 12999, 19999}
  /\ page.searchTerm = << >> /\ page.selectedBrand = All

(* C20 as stated: of the items priced 59.99, 129.99 and 199.99 the bracket
   under-100 returns only the 59.99 item, the bracket 100-200 returns the
   129.99 item and the bracket over-200 returns the 199.99 item. *)
C20_BracketsAsStated ==
  TheThreeLoaded
    => LET got == PricesOf(filteredProducts(page))
       IN /\ page.priceRange = "under-100" => got = {5999}
          /\ page.priceRange = "100-200" => 12999 \in got
          /\ page.priceRange = "over-200" => 19999 \in got

(* C20 as amended: of the items priced 59.99, 129.99 and 199.99 the bracket
   under-100 returns only the 59.99 item, the bracket 100-200 returns the
   129.99 and the 199.99 item, and the bracket over-200 returns none of
   them; in general a bracket returns exactly the loaded products priced
   below 100, from 100 to 200 inclusive, or above 200. *)
C20_BracketsByComparison ==
  LET got == PricesOf(filteredProducts(page))
      have == PricesOf(page.products)
  IN /\ TheThreeLoaded
          => /\ page.priceRange = "under-100" => got = {5999}
             /\ page.priceRange = "100-200" => got = {12999, 19999}
             /\ page.priceRange = "over-200" => got = {}
             /\ page.priceRange = "all" => got = {5999, 12999, 19999}
     /\ (page.searchTerm = << >> /\ page.selectedBrand = All)
          => /\ page.priceRange = "under-100"
                  => got = {x \in have : x < 10000}
             /\ page.priceRange = "100-200"
                  => got = {x \in have : x >= 10000 /\ x <= 20000}
             /\ page.priceRange = "over-200"
                  => got = {x \in have : x > 20000}

\* the three items are loaded, the bracket over-200 is set and nothing is
\* returned
C20_Witness ==
  /\ TheThreeLoaded
  /\ page.priceRange = "over-200"
  /\ filteredProducts(page) = << >>

(* C21: the order reader returns exactly the orders whose owner is the
   authenticated caller, all of them and no order of another owner (also
   to an admin, who may select every order), newest first. *)
C21_ReaderReturnsOwnOrdersNewestFirst ==
  \A u \in Callers :
    LET got == fetchOrders(u)
    IN /\ {got[k].id : k \in 1 .. Len(got)} =
            {o \in 1 .. Len(orders) : orders[o].user_id = u}
       /\ \A k \in 1 .. Len(got) :
            /\ got[k].user_id = u
            /\ got[k].total_amount = orders[got[k].id].total_amount
       /\ \A j, k \in 1 .. Len(got) : j < k => got[j].id > got[k].id

\* the store holds orders of an admin and of another owner; the admin's
\* reader returns the admin's only
C21_Witness ==
  \E a, u \in Users :
    /\ IsAdmin(a) /\ a # u
    /\ \E o \in 1 .. Len(orders) : orders[o].user_id = u
    /\ Len(fetchOrders(a)) >= 1
    /\ Len(fetchOrders(u)) >= 1
    /\ Len(fetchOrders(a)) < Len(orders)

\* the cart rows of owner u in table c
CartOf(c, u) == {r \in c : r.user_id = u}

C22_PageShowsOwnLines ==
  \A u \in Callers : \A k \in 1 .. Len(cartItems[u]) :
    \E r \in CartOf(cart, u) :
      /\ r.product_id = cartItems[u][k].product_id
      /\ r.selected_size = cartItems[u][k].selected_size
      /\ r.quantity = cartItems[u][k].quantity

C22_StepTouchesOwnRows ==
  \A v \in Users :
    (CartOf(cart', v) # CartOf(cart, v) \/ cartItems'[v] # cartItems[v])
      => \/ nops' = nops + 1 /\ last'.user = v
              /\ last'.op \in {"add", "setQuantity", "remove"}
         \/ pc[v] = "ClearCart" /\ pc'[v] = "Committed"

(* C22: no cart operation and no checkout of an owner reads, changes or
   deletes a cart row of another owner: a page shows rows of its caller
   only, a step changes the rows of the owner whose operation it is and of
   nobody else, and the clear that ends a checkout removes the rows of the
   owner who checked out only. *)
C22_CartsAreIsolated ==
  /\ []C22_PageShowsOwnLines
  /\ [][C22_StepTouchesOwnRows]_vars

\* the last operation was a checkout, it committed and cleared its owner's
\* rows, and the rows and the page lines of another owner are still there
C22_Witness ==
  /\ last.op = "checkout"
  /\ pc[last.user] = "Committed"
  /\ CartOf(cart, last.user) = {}
  /\ \E v \in Users \ {last.user} :
       /\ CartOf(cart, v) # {}
       /\ Len(cartItems[v]) = Cardinality(CartOf(cart, v))

C23_FailedIsNotPlacing ==
  \A u \in Users : pc[u] = "Failed" => ~placing[u]

C23_CheckoutKeepsCartUntilClear ==
  \A u \in Users :
    /\ (pc[u] \in Submitting /\ pc'[u] = "Failed")
         => /\ UNCHANGED <<cart, cartItems>>
            /\ ~placing'[u]
            /\ toast'[u] = "error"
    /\ (pc[u] \in Submitting /\ pc'[u] \in Submitting
          /\ (pc'[u] # pc[u] \/ co'[u] # co[u]))
         => UNCHANGED <<cart, cartItems>>
    /\ (pc[u] = "Failed" /\ pc'[u] = "InsertOrder")
         => /\ co'[u].items = cartItems[u]
            /\ Len(cartItems[u]) > 0
            /\ placing'[u]

(* C23: a checkout that ends in Failed has left the owner's cart rows and
   the lines of the owner's page as they were at the place-order request
   (no step of a checkout but the clear that commits it touches them), has
   shown an error and has reset placing to false, so that the place-order
   request can be made again with the same lines. *)
C23_FailureIsRecoverable ==
  /\ []C23_FailedIsNotPlacing
  /\ [][C23_CheckoutKeepsCartUntilClear]_vars

\* an owner whose checkout failed has placed the order again with the
\* lines the page shows
C23_Witness ==
  \E u \in Users :
    /\ pc[u] = "InsertOrder"
    /\ toast[u] = "error"
    /\ placing[u]
    /\ co[u].items = cartItems[u]
    /\ Len(cartItems[u]) > 0

(* C24: for an owner without the admin role every order line the order
   reader returns carries a non-null embedded product (name and image),
   also when the product was deactivated after the order was placed. *)
C24_EmbeddedProductNeverNull ==
  \A u \in Users :
    ~IsAdmin(u)
      => LET got == fetchOrders(u)
         IN \A k \in 1 .. Len(got) :
              \A i \in 1 .. Len(got[k].order_items) :
                got[k].order_items[i].product # Null

\* the stock of product p was edited, to no less than the line holds, after
\* the line k of u's checkout was loaded and before the order was placed,
\* and nothing else wrote it
EditedBeforeCheckout(u, k) ==
  LET p == co[u].items[k].product_id
  IN /\ nedits = 1
     /\ co[u].items[k].product.stock_quantity # co[u].stock0[p]
     /\ co[u].stock0[p] >= co[u].items[k].quantity
     /\ \A v \in Users \ {u} : pc[v] \in {"Idle", "Rejected"}

(* C25: an admin stock edit is not lost to a checkout: when an admin set
   the stock of a product to S after the owner's cart was loaded and the
   owner then completed a checkout of one line of quantity q of it, with no
   update error, the stock of the product is S - q. *)
C25_StockEditNotLost ==
  \A u \in Users :
    (pc[u] = "Committed" /\ co[u].errs = 0 /\ OneLinePerItem(u))
      => \A k \in 1 .. Len(co[u].items) :
           EditedBeforeCheckout(u, k)
             => products[co[u].items[k].product_id].stock_quantity =
                  co[u].stock0[co[u].items[k].product_id]
                    - co[u].items[k].quantity

C26_LoopRanToItsEnd ==
  \A u \in Users :
    pc[u] \in {"ClearCart", "Committed"}
      => /\ co[u].k = Len(co[u].items) + 1
         /\ Len(LinesOf(co[u].order)) = Len(co[u].items)

C26_StockErrorGoesOn ==
  \A u \in Users :
    (pc[u] = "UpdateStock" /\ co'[u] # co[u] /\ nfail' # nfail)
      => /\ co'[u].k = co[u].k + 1
         /\ pc'[u] = IF co[u].k < Len(co[u].items)
                      THEN "UpdateStock" ELSE "ClearCart"
         /\ placing'[u] /\ toast'[u] = toast[u]
         /\ UNCHANGED <<orders, order_items, cart>>

(* C26: an error of the stock update of one cart line does not stop the
   checkout: the loop goes on to the update of every later line, then to
   the cart clear, and the order and its lines stay in the store. *)
C26_StockErrorDoesNotStopCheckout ==
  /\ []C26_LoopRanToItsEnd
  /\ [][C26_StockErrorGoesOn]_vars

\* an admin owner's checkout of two lines committed with one stock update
\* failed and the other written, the lines stored and the cart cleared
C26_Witness ==
  \E u \in Users :
    /\ pc[u] = "Committed" /\ IsAdmin(u)
    /\ co[u].errs = 1 /\ Len(co[u].items) = 2
    /\ \E k \in 1 .. 2 :
         products[co[u].items[k].product_id].stock_quantity #
           co[u].stock0[co[u].items[k].product_id]
    /\ Len(LinesOf(co[u].order)) = 2
    /\ CartOf(cart, u) = {}

\* the product handlers are within reach only of a signed-in user whose role
\* lookup has returned admin, and after the admin data was fetched
C27_OfferedOnlyToAdmin ==
  MutationsOffered(adminPage)
    => /\ adminPage.user # NoUser /\ ~adminPage.roleLoading
       /\ has_role(adminPage.user, "admin")
       /\ adminPage.fetches > 0

\* one step of the session or of the Admin page: a fetch has an admin
\* behind it; an effect run without a user ends on '/auth', one with a
\* resolved non-admin on '/', neither with a fetch; a product is written
\* only through the offered handlers
C27_EffectGate ==
  /\ adminPage'.fetches # adminPage.fetches
       => /\ adminPage'.user # NoUser /\ ~adminPage'.roleLoading
          /\ adminPage'.isAdmin /\ has_role(adminPage'.user, "admin")
          /\ adminPage'.route = "/admin"
  /\ adminPage'.effects # adminPage.effects
       => /\ adminPage'.user = NoUser
               => /\ adminPage'.route = "/auth"
                  /\ adminPage'.fetches = adminPage.fetches
          /\ (adminPage'.user # NoUser /\ ~adminPage'.roleLoading
                 /\ ~has_role(adminPage'.user, "admin"))
               => /\ adminPage'.route = "/" /\ adminPage'.denied
                  /\ adminPage'.fetches = adminPage.fetches
  /\ products' # products => MutationsOffered(adminPage)

(* C27: the Admin page fetches the admin data and offers the product
   handlers only with a user present whose role lookup has returned admin;
   a signed-in non-admin is sent to '/' once the lookup has returned, a
   missing user to '/auth', neither with a fetch of the admin data. *)
C27_AdminGate ==
  /\ []C27_OfferedOnlyToAdmin
  /\ [][C27_EffectGate]_vars

\* a non-admin was turned away, later an admin got the data and edited a
\* product
C27_Witness ==
  /\ adminPage.denied
  /\ MutationsOffered(adminPage)
  /\ nedits = 1 /\ adminPage.user \in writers

\* a checkout under way is a page that is placing
C28_SubmittingIsPlacing ==
  \A u \in Users : pc[u] \in Submitting => placing[u]

\* while placing no request starts: the closure of the running request
\* stays and the request does not go back to its first step; an order is
\* added only by the order insert of a request, which it passes once
C28_NoSecondRequest ==
  /\ \A u \in Users :
       placing[u]
         => /\ co'[u].items = co[u].items /\ co'[u].total = co[u].total
            /\ pc'[u] = "InsertOrder" => pc[u] = "InsertOrder"
            /\ co[u].order # 0 => co'[u].order = co[u].order
  /\ orders' # orders
       => \E u \in Users :
            /\ pc[u] = "InsertOrder" /\ pc'[u] = "InsertOrderItems"
            /\ co[u].order = 0
            /\ orders' = Append(orders, OrderRow(u))
            /\ co'[u].order = Len(orders')

(* C28: on one Cart page at most one checkout is under way at any time:
   while placing is true no second place-order request starts, so one
   submission adds at most one order. *)
C28_OneCheckoutAtATime ==
  /\ []C28_SubmittingIsPlacing
  /\ [][C28_NoSecondRequest]_vars

\* the second submission of an owner, after the first one ended, is under
\* way with its own order, the second of the table
C28_Witness ==
  \E u \in Users :
    /\ pc[u] \in {"InsertOrderItems", "UpdateStock", "ClearCart"}
    /\ placing[u]
    /\ co[u].order = 2 /\ Len(orders) = 2
    /\ orders[1].user_id = u /\ orders[2].user_id = u

(* C29: if every remote store call returns, a checkout that has entered
   Submitting reaches Committed or Failed, and placing is false then. *)
C29_CheckoutEnds ==
  \A u \in Users :
    (pc[u] \in Submitting)
      ~> (pc[u] \in {"Committed", "Failed"} /\ ~placing[u])

\* one owner's checkout has ended Committed, another's Failed, neither page
\* is placing
C29_Witness ==
  \E u, v \in Users :
    /\ pc[u] = "Committed" /\ pc[v] = "Failed"
    /\ ~placing[u] /\ ~placing[v]
    /\ co[u].order # 0

\* every order line names a product that exists
C30_LinesNameProducts ==
  \A i \in 1 .. Len(order_items) : order_items[i].product_id \notin deleted

\* a delete by an admin of a product that an order line names is an error
\* and changes no products, orders or order_items row
C30_DeleteRejected ==
  (/\ nops' # nops /\ last'.op = "delete"
   /\ IsAdmin(last'.user) /\ Referenced(last'.product_id))
    => /\ toast'[last'.user] = "error"
       /\ UNCHANGED <<products, deleted, orders, order_items, cart>>

(* C30: an admin's delete of a product that at least one order line names
   is rejected by the store and leaves the product, the orders and the
   order lines as they were; no order line names a product that does not
   exist. *)
C30_ReferencedProductStays ==
  /\ []C30_LinesNameProducts
  /\ [][C30_DeleteRejected]_vars

\* an admin deleted one product and then was refused the delete of the
\* other, which an order line names
C30_Witness ==
  /\ last.op = "delete" /\ IsAdmin(last.user)
  /\ toast[last.user] = "error"
  /\ Referenced(last.product_id) /\ last.product_id \notin deleted
  /\ deleted # {}

====
